---- MODULE Spec2Model ----
(***************************************************************************)
(* Model of the clock widget of src/src/main.rs: the Time state, its four  *)
(* wrap-around mutators, the text-box formatters (partial validation and   *)
(* final parse) and the hour-hand angle of the painter.                    *)
(*                                                                         *)
(* Three specifications share the variables:                               *)
(*   Spec      the running application: button clicks and text boxes;      *)
(*   SpecArith the four mutators applied to every legal Time;              *)
(*   SpecText  the formatter functions applied to bounded strings.         *)
(***************************************************************************)
EXTENDS Integers, Sequences, FiniteSets, TLC

VARIABLES
    data,       \* the Time owned by the application: [hours, minutes], u8 each
    focus,      \* the text box being edited: "none", "hours" or "minutes"
    buffer,     \* the edited text of that box, a sequence of characters
    result,     \* SpecText: outcome of the formatter call on buffer: [fn, ok, val]
    panicked,   \* TRUE once an arithmetic-overflow panic ended the process
    trace,      \* SpecArith: the mutators applied so far
    path        \* SpecArith: the Time before each of them, then the current one

vars == <<data, focus, buffer, result, panicked, trace, path>>

----------------------------------------------------------------------------
(* Bounds *)

MaxLen == 3     \* longest string handed to the formatters in SpecText
MaxOps == 2     \* longest sequence of mutators in SpecArith

----------------------------------------------------------------------------
(* Program constants *)

U8Max == 255
HoursLimit == 24
MinutesLimit == 60

Fields == {"hours", "minutes"}

----------------------------------------------------------------------------
(* Strings are sequences of one-character strings. *)

Digits == <<"0", "1", "2", "3", "4", "5", "6", "7", "8", "9">>

DigitChars == {Digits[i] : i \in 1..10}

DigitVal(c) == (CHOOSE i \in 1..10 : Digits[i] = c) - 1

\* The digit loop of u8::from_str: -1 stands for Err (invalid digit or
\* overflow of the 8-bit accumulator).
RECURSIVE ParseDigits(_, _)
ParseDigits(s, acc) ==
    IF s = <<>> THEN acc
    ELSE IF Head(s) \notin DigitChars THEN -1
    ELSE IF acc * 10 > U8Max THEN -1
    ELSE IF acc * 10 + DigitVal(Head(s)) > U8Max THEN -1
    ELSE ParseDigits(Tail(s), acc * 10 + DigitVal(Head(s)))

\* u8::from_str / str::parse::<u8>: empty is an error, a lone sign is an
\* error, a leading "+" is skipped, a leading "-" is an invalid digit.
ParseU8(s) ==
    IF s = <<>> THEN -1
    ELSE IF Len(s) = 1 /\ Head(s) \in {"+", "-"} THEN -1
    ELSE IF Head(s) = "+" THEN ParseDigits(Tail(s), 0)
    ELSE ParseDigits(s, 0)

\* validate_partial_input comparing with < for <=
validate_partial_input_strict(input, upper_limit) ==
    IF input = <<>> THEN TRUE
    ELSE LET num == ParseU8(input)
         IN  num >= 0 /\ num < upper_limit

validate_partial_input(input, upper_limit) ==
    IF input = <<>> THEN TRUE
    ELSE LET num == ParseU8(input)
         IN  num >= 0 /\ num <= upper_limit

value(input) ==
    IF input = <<>> THEN [ok |-> TRUE, val |-> 0]
    ELSE LET num == ParseU8(input)
         IN  IF num >= 0 THEN [ok |-> TRUE, val |-> num]
             ELSE [ok |-> FALSE, val |-> 0]

\* HoursFormatter / MinutesFormatter :: validate_partial_input
Formatter_validate_partial_input(field, input) ==
    IF field = "hours" THEN validate_partial_input(input, HoursLimit)
    ELSE validate_partial_input(input, MinutesLimit)

\* HoursFormatter / MinutesFormatter :: value
Formatter_value(field, input) == value(input)

----------------------------------------------------------------------------
(* The mutators.  They work on [hours, minutes, ovf]; ovf records that a    *)
(* `+= 1` ran on 255 or a `-= 1` ran on 0.                                  *)

Exec(t) == [hours |-> t.hours, minutes |-> t.minutes, ovf |-> FALSE]

TimeOf(e) == [hours |-> e.hours, minutes |-> e.minutes]

\* decrease_hours without the wrap at 0
decrease_hours_nowrap(d) ==
    [d EXCEPT !.hours = (d.hours + U8Max) % (U8Max + 1),
              !.ovf = d.ovf \/ d.hours - 1 < 0]

decrease_hours(d) ==
    IF d.hours = 0 THEN [d EXCEPT !.hours = 23]
    ELSE [d EXCEPT !.hours = (d.hours + U8Max) % (U8Max + 1),
                   !.ovf = d.ovf \/ d.hours - 1 < 0]

\* increase_hours wrapping one hour late (== 24 for == 23)
increase_hours_late(d) ==
    IF d.hours = 24 THEN [d EXCEPT !.hours = 0]
    ELSE [d EXCEPT !.hours = (d.hours + 1) % (U8Max + 1),
                   !.ovf = d.ovf \/ d.hours + 1 > U8Max]

increase_hours(d) ==
    IF d.hours = 23 THEN [d EXCEPT !.hours = 0]
    ELSE [d EXCEPT !.hours = (d.hours + 1) % (U8Max + 1),
                   !.ovf = d.ovf \/ d.hours + 1 > U8Max]

\* decrease_minutes without the borrow from the hours
decrease_minutes_noborrow(d) ==
    IF d.minutes = 0 THEN [d EXCEPT !.minutes = 59]
    ELSE [d EXCEPT !.minutes = (d.minutes + U8Max) % (U8Max + 1),
                   !.ovf = d.ovf \/ d.minutes - 1 < 0]

\* decrease_minutes borrowing one minute early (== 1 for == 0)
decrease_minutes_early(d) ==
    IF d.minutes = 1 THEN decrease_hours([d EXCEPT !.minutes = 0])
    ELSE [d EXCEPT !.minutes = (d.minutes + U8Max) % (U8Max + 1),
                   !.ovf = d.ovf \/ d.minutes - 1 < 0]

decrease_minutes(d) ==
    IF d.minutes = 0 THEN decrease_hours([d EXCEPT !.minutes = 59])
    ELSE [d EXCEPT !.minutes = (d.minutes + U8Max) % (U8Max + 1),
                   !.ovf = d.ovf \/ d.minutes - 1 < 0]

\* increase_minutes without the carry into the hours
increase_minutes_nocarry(d) ==
    IF d.minutes = 59 THEN [d EXCEPT !.minutes = 0]
    ELSE [d EXCEPT !.minutes = (d.minutes + 1) % (U8Max + 1),
                   !.ovf = d.ovf \/ d.minutes + 1 > U8Max]

increase_minutes(d) ==
    IF d.minutes = 59 THEN increase_hours([d EXCEPT !.minutes = 0])
    ELSE [d EXCEPT !.minutes = (d.minutes + 1) % (U8Max + 1),
                   !.ovf = d.ovf \/ d.minutes + 1 > U8Max]

----------------------------------------------------------------------------
(* The painter's hour-hand angle, in turns (the angle over 2 PI), with the  *)
(* f64 arithmetic taken as exact arithmetic on fractions [num, den].        *)

RECURSIVE Gcd(_, _)
Gcd(a, b) == IF b = 0 THEN a ELSE Gcd(b, a % b)

\* the fraction n / d (d > 0) in lowest terms
Rat(n, d) ==
    LET g == Gcd(IF n < 0 THEN -n ELSE n, d)
    IN  [num |-> n \div g, den |-> d \div g]

RatAdd(a, b) == Rat(a.num * b.den + b.num * a.den, a.den * b.den)

RatSub(a, b) == Rat(a.num * b.den - b.num * a.den, a.den * b.den)

RatDiv(a, n) == Rat(a.num, a.den * n)

RatEq(a, b) == a.num * b.den = b.num * a.den

\* an hour hand that jumps from hour to hour
hours_angle_stepwise(t) ==
    RatSub(RatDiv(Rat(t.hours % 12, 1), 12), Rat(1, 4))

\* ((hours % 12 + minutes / 60) / 12 * 2 PI - PI / 2) / (2 PI): the argument
\* of hours_x and hours_y, an angle from the x axis with y pointing down
hours_angle(t) ==
    RatSub(RatDiv(RatAdd(Rat(t.hours % 12, 1), Rat(t.minutes, 60)), 12), Rat(1, 4))

\* the same angle measured clockwise from 12 o'clock: a quarter turn on
HourHandTurn(t) == RatAdd(hours_angle(t), Rat(1, 4))

----------------------------------------------------------------------------
(* The running application (Spec)                                          *)

NoResult == [fn |-> "none", ok |-> TRUE, val |-> 0]

\* main: launch(Time { hours: 12, minutes: 0 })
InitialTime == [hours |-> 12, minutes |-> 0]

\* The texts a user enters into a text box (typed, pasted or cut down to).
TypedTexts == { <<>>, <<"2", "4">>, <<"2", "5">>, <<"6", "0">>, <<"a", "b">> }

Init ==
    /\ data = InitialTime
    /\ focus = "none"
    /\ buffer = <<>>
    /\ result = NoResult
    /\ panicked = FALSE
    /\ trace = <<>>
    /\ path = <<>>

\* A button's on_click closure runs a mutator on the application's Time.  A
\* `+= 1` on 255 panics in a build with overflow checks and wraps without
\* them; both outcomes are kept.
Click(e) ==
    /\ ~panicked
    /\ \/ /\ e.ovf
          /\ panicked' = TRUE
          /\ data' = data
       \/ /\ panicked' = FALSE
          /\ data' = TimeOf(e)
    /\ UNCHANGED <<focus, buffer, result, trace, path>>

ClickIncreaseHours == Click(increase_hours(Exec(data)))

ClickDecreaseHours == Click(decrease_hours(Exec(data)))

ClickIncreaseMinutes == Click(increase_minutes(Exec(data)))

ClickDecreaseMinutes == Click(decrease_minutes(Exec(data)))

\* ValueTextBox, an edit of the text: the formatter's partial validation
\* decides whether the new text is kept or the edit is undone.  No delegate
\* is installed, so the error of a refused edit is dropped.  The Time is
\* written on commit only.
EditText(field, text) ==
    /\ ~panicked
    /\ focus \in {"none", field}
    /\ IF Formatter_validate_partial_input(field, text)
       THEN focus' = field /\ buffer' = text
       ELSE UNCHANGED <<focus, buffer>>
    /\ UNCHANGED <<data, result, panicked, trace, path>>

EditHours == \E text \in TypedTexts : EditText("hours", text)

EditMinutes == \E text \in TypedTexts : EditText("minutes", text)

\* ValueTextBox, completing the edit: the formatter's value() of the text is
\* written through the lens to the field of the box; an Err leaves the Time
\* alone and the box in editing.
\* both boxes bound to the same lens, Time::hours
Commit_hours_lens(field) ==
    /\ ~panicked
    /\ focus = field
    /\ LET r == Formatter_value(field, buffer)
       IN  IF r.ok
           THEN /\ data' = [data EXCEPT !.hours = r.val]
                /\ focus' = "none"
                /\ buffer' = <<>>
           ELSE UNCHANGED <<data, focus, buffer>>
    /\ UNCHANGED <<result, panicked, trace, path>>

Commit(field) ==
    /\ ~panicked
    /\ focus = field
    /\ LET r == Formatter_value(field, buffer)
       IN  IF r.ok
           THEN /\ data' = [data EXCEPT ![field] = r.val]
                /\ focus' = "none"
                /\ buffer' = <<>>
           ELSE UNCHANGED <<data, focus, buffer>>
    /\ UNCHANGED <<result, panicked, trace, path>>

CommitHours == Commit("hours")

CommitMinutes == Commit("minutes")

Next ==
    \/ ClickIncreaseHours
    \/ ClickDecreaseHours
    \/ ClickIncreaseMinutes
    \/ ClickDecreaseMinutes
    \/ EditHours
    \/ EditMinutes
    \/ CommitHours
    \/ CommitMinutes

Spec == Init /\ [][Next]_vars

----------------------------------------------------------------------------
(* The four mutators on every legal Time (SpecArith)                       *)

LegalTimes == [hours : 0..23, minutes : 0..59]

InitArith ==
    /\ data \in LegalTimes
    /\ focus = "none"
    /\ buffer = <<>>
    /\ result = NoResult
    /\ panicked = FALSE
    /\ trace = <<>>
    /\ path = <<data>>

Apply(name, e) ==
    /\ Len(trace) < MaxOps
    /\ data' = TimeOf(e)
    /\ trace' = Append(trace, name)
    /\ path' = Append(path, TimeOf(e))
    /\ UNCHANGED <<focus, buffer, result, panicked>>

ApplyIncreaseHours == Apply("increase_hours", increase_hours(Exec(data)))

ApplyDecreaseHours == Apply("decrease_hours", decrease_hours(Exec(data)))

ApplyIncreaseMinutes == Apply("increase_minutes", increase_minutes(Exec(data)))

ApplyDecreaseMinutes == Apply("decrease_minutes", decrease_minutes(Exec(data)))

NextArith ==
    \/ ApplyIncreaseHours
    \/ ApplyDecreaseHours
    \/ ApplyIncreaseMinutes
    \/ ApplyDecreaseMinutes

SpecArith == InitArith /\ [][NextArith]_vars

----------------------------------------------------------------------------
(* The formatter functions on bounded strings (SpecText)                   *)

Alphabet == {"0", "1", "2", "4", "5", "6", "a", "b", "+", "-"}

Strings == UNION { [1..n -> Alphabet] : n \in 0..MaxLen }

InitText ==
    /\ buffer \in Strings
    /\ data = InitialTime
    /\ focus = "none"
    /\ result = NoResult
    /\ panicked = FALSE
    /\ trace = <<>>
    /\ path = <<>>

\* Formatter::validate_partial_input of the box `field` on the text
CallValidate(field) ==
    /\ focus' = field
    /\ result' = [fn |-> "validate_partial_input",
                  ok |-> Formatter_validate_partial_input(field, buffer),
                  val |-> 0]
    /\ UNCHANGED <<data, buffer, panicked, trace, path>>

ValidateHours == CallValidate("hours")

ValidateMinutes == CallValidate("minutes")

\* Formatter::value of the box `field` on the text
CallValue(field) ==
    /\ focus' = field
    /\ LET r == Formatter_value(field, buffer)
       IN  result' = [fn |-> "value", ok |-> r.ok, val |-> r.val]
    /\ UNCHANGED <<data, buffer, panicked, trace, path>>

ValueHours == CallValue("hours")

ValueMinutes == CallValue("minutes")

NextText ==
    \/ ValidateHours
    \/ ValidateMinutes
    \/ ValueHours
    \/ ValueMinutes

SpecText == InitText /\ [][NextText]_vars

----------------------------------------------------------------------------
(* Claims about the mutators, checked under SpecArith                      *)

Steps == 1..Len(trace)

\* C1: on a legal Time (h, m), increase_minutes gives minutes (m + 1) mod 60
\* and hours (h + 1) mod 24 when m = 59, hours h otherwise.
C1_IncreaseMinutes ==
    \A i \in Steps :
        trace[i] = "increase_minutes" =>
            /\ path[i + 1].minutes = (path[i].minutes + 1) % 60
            /\ path[i + 1].hours =
                   IF path[i].minutes = 59 THEN (path[i].hours + 1) % 24
                   ELSE path[i].hours

C1_Witness ==
    /\ trace = <<"increase_minutes">>
    /\ path[1] = [hours |-> 23, minutes |-> 59]
    /\ data = [hours |-> 0, minutes |-> 0]

\* C2: on a legal Time (h, m), decrease_minutes gives minutes (m - 1 + 60)
\* mod 60 and hours (h - 1 + 24) mod 24 when m = 0, hours h otherwise.
C2_DecreaseMinutes ==
    \A i \in Steps :
        trace[i] = "decrease_minutes" =>
            /\ path[i + 1].minutes = (path[i].minutes - 1 + 60) % 60
            /\ path[i + 1].hours =
                   IF path[i].minutes = 0 THEN (path[i].hours - 1 + 24) % 24
                   ELSE path[i].hours

C2_Witness ==
    /\ trace = <<"decrease_minutes">>
    /\ path[1] = [hours |-> 0, minutes |-> 0]
    /\ data = [hours |-> 23, minutes |-> 59]

\* C3: on a legal Time (h, m), increase_hours gives ((h + 1) mod 24, m) and
\* decrease_hours gives ((h - 1 + 24) mod 24, m).
C3_HourOperations ==
    \A i \in Steps :
        /\ trace[i] = "increase_hours" =>
               path[i + 1] = [hours |-> (path[i].hours + 1) % 24,
                              minutes |-> path[i].minutes]
        /\ trace[i] = "decrease_hours" =>
               path[i + 1] = [hours |-> (path[i].hours - 1 + 24) % 24,
                              minutes |-> path[i].minutes]

C3_Witness ==
    /\ trace = <<"increase_hours", "decrease_hours">>
    /\ path = << [hours |-> 23, minutes |-> 30], [hours |-> 0, minutes |-> 30],
                 [hours |-> 23, minutes |-> 30] >>

Paired ==
    { <<"increase_hours", "decrease_hours">>, <<"decrease_hours", "increase_hours">>,
      <<"increase_minutes", "decrease_minutes">>,
      <<"decrease_minutes", "increase_minutes">> }

\* C4: on a legal Time, an operation followed by its paired operation
\* restores the Time, carries and borrows across the hour and across
\* midnight included.
C4_PairedUndo ==
    \A i \in Steps :
        (i + 1 \in Steps /\ <<trace[i], trace[i + 1]>> \in Paired) =>
            path[i + 2] = path[i]

C4_Witness ==
    /\ trace = <<"decrease_minutes", "increase_minutes">>
    /\ path = << [hours |-> 0, minutes |-> 0], [hours |-> 23, minutes |-> 59],
                 [hours |-> 0, minutes |-> 0] >>

\* The minute of the day a Time denotes, and the minutes an operation adds.
MinuteOfDay(t) == t.hours * 60 + t.minutes

Shift(name) ==
    CASE name = "increase_hours" -> 60
      [] name = "decrease_hours" -> 1440 - 60
      [] name = "increase_minutes" -> 1
      [] name = "decrease_minutes" -> 1440 - 1

RECURSIVE TotalShift(_)
TotalShift(ops) ==
    IF ops = <<>> THEN 0 ELSE Shift(Head(ops)) + TotalShift(Tail(ops))

\* C6: from a legal Time every sequence of the four operations passes
\* through and ends in legal Times only, and the final Time is a function of
\* the start and the sequence: the legal Time whose minute of the day is the
\* start's moved by the sequence's total shift modulo 1440.
C6_ClosedDeterministic ==
    /\ data \in LegalTimes
    /\ \A i \in 1..Len(path) : path[i] \in LegalTimes
    /\ MinuteOfDay(data) = (MinuteOfDay(path[1]) + TotalShift(trace)) % 1440

C6_Witness ==
    /\ trace = <<"increase_minutes", "increase_hours">>
    /\ path[1] = [hours |-> 22, minutes |-> 59]
    /\ data = [hours |-> 0, minutes |-> 0]

At(h, m) == [hours |-> h, minutes |-> m]

\* C9: on a legal Time (h, m) the hour hand stands ((h mod 12) * 60 + m) / 720
\* of a turn clockwise from 12 o'clock (0 at 0:00 and 12:00, a quarter at
\* 3:00, halfway between the marks of 1 and 2 at 1:30), and an
\* increase_minutes that does not pass 11:59 -> 12:00 or 23:59 -> 0:00 moves
\* it on by 1 / 720 of a turn.
C9_HourHand ==
    /\ RatEq(HourHandTurn(data), Rat((data.hours % 12) * 60 + data.minutes, 720))
    /\ data \in {At(0, 0), At(12, 0)} => RatEq(HourHandTurn(data), Rat(0, 1))
    /\ data = At(3, 0) => RatEq(HourHandTurn(data), Rat(1, 4))
    /\ data = At(1, 30) =>
           RatEq(RatAdd(HourHandTurn(data), HourHandTurn(data)),
                 RatAdd(Rat(1, 12), Rat(2, 12)))
    /\ \A i \in Steps :
           (trace[i] = "increase_minutes" /\ path[i] \notin {At(11, 59), At(23, 59)}) =>
               RatEq(RatSub(HourHandTurn(path[i + 1]), HourHandTurn(path[i])),
                     Rat(1, 720))

C9_Witness ==
    /\ trace = <<"increase_minutes">>
    /\ path[1] = At(1, 29)
    /\ data = At(1, 30)

----------------------------------------------------------------------------
(* Claims about the formatters, checked under SpecText                     *)

\* The text as a numeral: decimal digits after an optional "+".
Unsigned(s) == IF s # <<>> /\ Head(s) = "+" THEN Tail(s) ELSE s

IsNumeral(s) ==
    /\ Unsigned(s) # <<>>
    /\ \A i \in 1..Len(Unsigned(s)) : Unsigned(s)[i] \in DigitChars

RECURSIVE DecimalValue(_)
DecimalValue(s) ==
    IF s = <<>> THEN 0
    ELSE DecimalValue(SubSeq(s, 1, Len(s) - 1)) * 10 + DigitVal(s[Len(s)])

\* C7: partial-input validation with the bound 24 (hour box) or 60 (minute
\* box) succeeds on the empty string and on every numeral of an unsigned
\* integer <= the bound, and fails on every other string: "" succeeds, "24"
\* with 24 succeeds, "25" with 24 fails, "ab" fails.
C7_PartialValidation ==
    result.fn = "validate_partial_input" =>
        /\ result.ok <=>
               \/ buffer = <<>>
               \/ /\ IsNumeral(buffer)
                  /\ DecimalValue(Unsigned(buffer)) <= (IF focus = "hours" THEN 24 ELSE 60)
        /\ buffer = <<>> => result.ok
        /\ (buffer = <<"2", "4">> /\ focus = "hours") => result.ok
        /\ (buffer = <<"2", "5">> /\ focus = "hours") => ~result.ok
        /\ buffer = <<"a", "b">> => ~result.ok

C7_Witness ==
    /\ result = [fn |-> "validate_partial_input", ok |-> TRUE, val |-> 0]
    /\ focus = "hours"
    /\ buffer = <<"2", "4">>

----------------------------------------------------------------------------
(* Claims about the running application, checked under Spec                *)

\* C5: in every state reachable from 12:00 by button clicks and committed
\* text, 0 <= hours <= 23 and 0 <= minutes <= 59.
C5_LegalRange ==
    /\ data.hours \in 0..23
    /\ data.minutes \in 0..59

\* C10: no reachable state lets a click run `+= 1` on 255 or `-= 1` on 0,
\* and no arithmetic-overflow panic has happened.
C10_NoOverflow ==
    /\ ~panicked
    /\ ~increase_hours(Exec(data)).ovf
    /\ ~decrease_hours(Exec(data)).ovf
    /\ ~increase_minutes(Exec(data)).ovf
    /\ ~decrease_minutes(Exec(data)).ovf

\* The texts the partial check of a box lets through, stated on the numeral.
Acceptable(field, text) ==
    \/ text = <<>>
    \/ /\ IsNumeral(text)
       /\ DecimalValue(Unsigned(text)) <= (IF field = "hours" THEN 24 ELSE 60)

====
